---- MODULE Spec2Model ----
(***************************************************************************)
(* A model of the PlayCanvas exporter for Blender (src/export.py).         *)
(*                                                                         *)
(* One export run (do_export) is a sequential program: SceneExporter       *)
(* builds the list of hierarchies, and HeirachyExporter exports each one   *)
(* in phases (UV list, mesh list and MeshParser, node data, mappings,      *)
(* materials, main document).  The scene (bpy.data) is the input; it is    *)
(* drawn in the initial state from a bounded family of scenes.             *)
(*                                                                         *)
(* Conventions.  Python lists are sequences (index i of Python is i+1      *)
(* here); preallocated attribute arrays are functions over 0..n-1, as the  *)
(* code indexes them.  Object names and material names are strings; mesh   *)
(* names are sequences of strings whose parts the code joins with '.'.     *)
(* Coordinates, normals and UVs are non-negative integers.                 *)
(***************************************************************************)
EXTENDS Integers, Sequences, FiniteSets, TLC

\* ------------------------------------------------------------- bounds
\* Number of objects in bpy.data.objects of a scene of the scene family.
NObj == 2
\* Vertices, faces and material slots of a mesh of the mesh family.
MaxVerts == 3
MaxFaces == 1
MaxMats == 1
\* UV layers of a mesh of the mesh family.
MaxUV == 1

\* ------------------------------------------------- program constants
\* float('inf'), the seed of both accumulators of calculate_bounding_box.
Inf == 999
\* None, the value the attribute arrays are preallocated with.
None == -1

\* ------------------------------------------------------------ helpers
Range(s) == {s[i] : i \in DOMAIN s}

Min(a, b) == IF a <= b THEN a ELSE b

Max(a, b) == IF a >= b THEN a ELSE b

RECURSIVE Concat(_)
\* list += list over a sequence of lists
Concat(ss) == IF ss = <<>> THEN <<>> ELSE Head(ss) \o Concat(Tail(ss))

\* list.index(x) of Python, 0-based; the caller guards x in list
RECURSIVE Index(_, _)
Index(s, x) == IF Head(s) = x THEN 0 ELSE 1 + Index(Tail(s), x)

\* Sequences over S of length at most n
SeqUpTo(S, n) == UNION {[1..k -> S] : k \in 0..n}

\* Injective sequences over S of length n
InjSeq(S, n) == {s \in [1..n -> S] : \A i, j \in 1..n : s[i] = s[j] => i = j}

\* ----------------------------------------------------------- geometry
\* A mesh datablock (bpy.types.Mesh):
\*   name         <<"Cube">>
\*   materials    sequence of material names (mesh.materials)
\*   verts        verts[v] = <<x, y, z>>, the coordinate of vertex v
\*   faces        sequence of [verts |-> <<v1, v2, ...>>, material_index |-> k]
\*   uv_layers    sequence of UV layer names
\*   has_color    whether the mesh has an active vertex colour layer
\* A bmesh holds verts as records [id, co] (id: the vertex of the source
\* mesh) and the same faces, which refer to verts by id.

\* Per-corner data of the source mesh, fixed by the vertex and the layer:
\* the split normal, the UV coordinate, the vertex colour (in tenths).
LoopNormal(v) == <<v, v + 1, v + 2>>

LoopUV(layer, v) == <<v, Len(layer)>>

LoopColor(v) == <<v % 11, (v + 3) % 11, (2 * v) % 11>>

\* bmesh.ops.triangulate on one face: a triangle passes unchanged; a larger
\* polygon is cut into a fan, a quad along either diagonal (diag).
RECURSIVE Fan(_, _, _)
Fan(vs, i, mi) ==
    IF i >= Len(vs) THEN <<>>
    ELSE <<[verts |-> <<vs[1], vs[i], vs[i + 1]>>, material_index |-> mi]>>
         \o Fan(vs, i + 1, mi)

TriangulateFace(face, diag) ==
    LET vs == face.verts
        mi == face.material_index
    IN  IF Len(vs) = 4 /\ diag = 1
        THEN << [verts |-> <<vs[1], vs[2], vs[4]>>, material_index |-> mi],
                [verts |-> <<vs[2], vs[3], vs[4]>>, material_index |-> mi] >>
        ELSE Fan(vs, 2, mi)

\* old_mesh = bmesh.new(); old_mesh.from_mesh(mesh); triangulate
FromMeshTriangulated(mesh, diag) ==
    [ verts |-> [v \in DOMAIN mesh.verts |-> [id |-> v, co |-> mesh.verts[v]]],
      faces |-> Concat([f \in DOMAIN mesh.faces |->
                           TriangulateFace(mesh.faces[f], diag)]),
      uv_layers |-> mesh.uv_layers,
      has_color |-> mesh.has_color ]

\* The copy of old_mesh for material slot mat_id: faces of another slot
\* removed, then the vertices that no remaining face uses.
SplitForMaterial(old_mesh, mat_id) ==
    LET KeepFace(face) == face.material_index = mat_id
        faces == SelectSeq(old_mesh.faces, KeepFace)
        Used(vert) == \E i \in DOMAIN faces : vert.id \in Range(faces[i].verts)
    IN  [old_mesh EXCEPT !.faces = faces,
                         !.verts = SelectSeq(old_mesh.verts, Used)]

\* mesh.name if only one material exists, else mesh.name + '.' + mat.name
SubMeshName(mesh, mat_id) ==
    IF Len(mesh.materials) = 1 THEN mesh.name
    ELSE mesh.name \o <<mesh.materials[mat_id + 1]>>

\* separate_mesh_by_material(mesh, obj): the list of
\* <<mesh_name, bmesh, instance_list>>, one per material slot whose copy
\* keeps a vertex, or the whole triangulated mesh when it has no materials.
separate_mesh_by_material(mesh, obj, diag) ==
    LET old_mesh == FromMeshTriangulated(mesh, diag)
        Part(mat_id) ==
            LET new_mesh == SplitForMaterial(old_mesh, mat_id)
            IN  IF new_mesh.verts # <<>>
                THEN << <<SubMeshName(mesh, mat_id), new_mesh, obj>> >>
                ELSE <<>>
    IN  IF mesh.materials # <<>>
        THEN Concat([k \in 1..Len(mesh.materials) |-> Part(k - 1)])
        ELSE << <<mesh.name, old_mesh, obj>> >>

\* ---------------------------------------------------------- MeshParser
\* The coordinate of the bmesh vertex with the given id.
CoOf(bm, id) ==
    LET i == CHOOSE i \in DOMAIN bm.verts : bm.verts[i].id = id
    IN  bm.verts[i].co

\* for face in mesh.faces: for loop in face.loops: the corners, in order
Corners(bm) == Concat([f \in DOMAIN bm.faces |-> bm.faces[f].verts])

\* One pass of the loop body of calculate_bounding_box: minpos is updated
\* first, and maxpos is then computed from the vertex and the new minpos.
BBoxVisit(box, co) ==
    LET minpos == [k \in 1..3 |-> Min(co[k], box.min[k])]
        maxpos == [k \in 1..3 |-> Max(co[k], minpos[k])]
    IN  [min |-> minpos, max |-> maxpos]

RECURSIVE BBoxFold(_, _, _)
BBoxFold(bm, corners, box) ==
    IF corners = <<>> THEN box
    ELSE BBoxFold(bm, Tail(corners), BBoxVisit(box, CoOf(bm, Head(corners))))

\* MeshParser.calculate_bounding_box
calculate_bounding_box(bm) ==
    IF bm.faces # <<>>
    THEN BBoxFold(bm, Corners(bm),
                  [min |-> <<Inf, Inf, Inf>>, max |-> <<Inf, Inf, Inf>>])
    ELSE [min |-> <<0, 0, 0>>, max |-> <<0, 0, 0>>]

\* self.mesh.to_mesh(mesh): mesh.loops, one per face corner in face order;
\* loop.index counts from 0, loop.vertex_index is the position of the
\* vertex in the bmesh (vid: the source vertex it came from).
ToMeshLoops(bm) ==
    LET cs == Corners(bm)
        Pos(id) == CHOOSE i \in DOMAIN bm.verts : bm.verts[i].id = id
    IN  [i \in DOMAIN cs |->
            [index |-> i - 1, vertex_index |-> Pos(cs[i]) - 1, vid |-> cs[i]]]

\* numverts*n*[None]
Prealloc(numverts, n) == [i \in 0..(numverts * n - 1) |-> None]

\* Store that leaves the last component of the group unwritten.
Store_DropLast(arr, n, index, vec) ==
    [i \in DOMAIN arr |->
        IF i \in (n * index)..(n * index + n - 2)
        THEN vec[i - n * index + 1] ELSE arr[i]]

\* arr[n*index + k] = vec[k] for the n components of vec
Store(arr, n, index, vec) ==
    [i \in DOMAIN arr |->
        IF i \in (n * index)..(n * index + n - 1)
        THEN vec[i - n * index + 1] ELSE arr[i]]

\* int(col.r * 255), ..., 255 for a colour given in tenths
ColorBytes(col) ==
    <<(col[1] * 255) \div 10, (col[2] * 255) \div 10, (col[3] * 255) \div 10, 255>>

\* The body of `for loop in mesh.loops` for one attribute array.
\* values[i] is the attribute value read for loops[i].
RECURSIVE FillLoops(_, _, _, _)
FillLoops(arr, n, loops, values) ==
    IF loops = <<>> THEN arr
    ELSE FillLoops(Store(arr, n, Head(loops).index, Head(values)),
                   n, Tail(loops), Tail(values))

\* self['indices'].append(loop.index) for each loop
LoopIndices(loops) == [i \in DOMAIN loops |-> loops[i].index]

\* 'texCoord{}'.format(uv_index) is the key <<"texCoord", uv_index>>
RECURSIVE TexCoords(_, _, _, _)
TexCoords(bm, loops, layers, uv_list) ==
    IF layers = <<>> THEN <<>>
    ELSE LET uv_name == Head(layers)
             uv_index == Index(uv_list, uv_name)
             uvs == [i \in DOMAIN loops |-> LoopUV(uv_name, loops[i].vid)]
             data == FillLoops(Prealloc(Len(loops), 2), 2, loops, uvs)
         IN  TexCoords(bm, loops, Tail(layers), uv_list)
             @@ (<<"texCoord", uv_index>> :>
                 [type |-> "float32", components |-> 2, data |-> data])

\* MeshParser.update_mesh_data: the vertex data and the index list
update_mesh_data(bm, uv_list) ==
    LET loops == ToMeshLoops(bm)
        numverts == Len(loops)
        pos == [i \in DOMAIN loops |-> bm.verts[loops[i].vertex_index + 1].co]
        normal == [i \in DOMAIN loops |-> LoopNormal(loops[i].vid)]
        col == [i \in DOMAIN loops |-> ColorBytes(LoopColor(loops[i].vid))]
        vertposlist == FillLoops(Prealloc(numverts, 3), 3, loops, pos)
        vertnormallist == FillLoops(Prealloc(numverts, 3), 3, loops, normal)
        vertcollist == FillLoops(Prealloc(numverts, 4), 4, loops, col)
        base == (<<"position">> :>
                    [type |-> "float32", components |-> 3, data |-> vertposlist])
                @@ (<<"normal">> :>
                    [type |-> "float32", components |-> 3, data |-> vertnormallist])
        color == IF bm.has_color
                 THEN <<"color">> :>
                    [type |-> "uint8", components |-> 4, data |-> vertcollist]
                 ELSE <<>>
    IN  [ indices |-> LoopIndices(loops),
          vert_data |-> TexCoords(bm, loops, bm.uv_layers, uv_list)
                        @@ color @@ base ]

\* MeshParser(mesh, id_num, uv_list) for mesh = <<name, bmesh, instances>>
MeshParser(mesh, id_num, uv_list) ==
    LET bm == mesh[2]
        data == update_mesh_data(bm, uv_list)
    IN  [ vertices |-> id_num,
          indices |-> data.indices,
          aabb |-> calculate_bounding_box(bm),
          type |-> "triangles",
          base |-> 0,
          count |-> Len(data.indices),
          vert_data |-> data.vert_data ]

\* --------------------------------------------------------------- scene
\* An object of bpy.data.objects: name, type, data, parent (0: None),
\* location and rotation of matrix_local (rotation in quarter turns, that
\* is in units of pi/2 radians), and its scale property.  data is the
\* summary [name, materials] of the datablock; an object without data, or
\* whose data has no materials attribute, has materials <<>>.
ObjNames == <<"Body", "Wheel", "Door", "Roof", "Seat">>

MatNames == <<"Red", "Blue", "Green", "Grey">>

UVNames == <<"UVMap", "Light", "Bake">>

NoData == [name |-> <<>>, materials |-> <<>>]

CurveData == [name |-> <<"Curve">>, materials |-> <<"Blue">>]

\* The coordinate of vertex v of a mesh of the families.
VertCo(v) == <<v % 3, (2 * v) % 5, (v * v) % 4>>

\* The mesh datablocks of the scene family.
CubeMesh ==
    [ name |-> <<"Cube">>, materials |-> <<"Red", "Blue">>,
      verts |-> [v \in 1..4 |-> VertCo(v)],
      faces |-> << [verts |-> <<1, 2, 3>>, material_index |-> 0],
                   [verts |-> <<1, 3, 4>>, material_index |-> 1] >>,
      uv_layers |-> <<"UVMap">>, has_color |-> FALSE ]

PlaneMesh ==
    [ name |-> <<"Plane">>, materials |-> <<>>,
      verts |-> [v \in 1..3 |-> VertCo(v)],
      faces |-> << [verts |-> <<3, 2, 1>>, material_index |-> 0] >>,
      uv_layers |-> <<"Light", "UVMap">>, has_color |-> TRUE ]

BareMesh ==
    [ name |-> <<"Bare">>, materials |-> <<"Red">>,
      verts |-> <<>>, faces |-> <<>>,
      uv_layers |-> <<>>, has_color |-> FALSE ]

SceneMeshes == {CubeMesh, PlaneMesh, BareMesh}

\* A mesh of one quad and one triangle on two materials, with two UV layers
\* and vertex colours.
QuadMesh ==
    [ name |-> <<"Quad">>, materials |-> <<"Green", "Grey">>,
      verts |-> [v \in 1..4 |-> VertCo(v)],
      faces |-> << [verts |-> <<2, 3, 4, 1>>, material_index |-> 1],
                   [verts |-> <<4, 2, 1>>, material_index |-> 0] >>,
      uv_layers |-> <<"Bake", "UVMap">>, has_color |-> TRUE ]

MeshData(mesh) == [name |-> mesh.name, materials |-> mesh.materials]

\* What an object can be: a mesh object on one of the datablocks, an empty,
\* or a curve with a material.
ObjKinds ==
    {[type |-> "MESH", data |-> MeshData(m)] : m \in SceneMeshes}
    \cup {[type |-> "EMPTY", data |-> NoData], [type |-> "CURVE", data |-> CurveData]}

\* The local transform of object o: location, rotation in quarter turns
\* about each axis, and scale, none of them the identity.
Transform(o) ==
    [ location |-> <<o, 2 * o, 3>>, rotation |-> <<o % 4, 0, 2>>,
      scale |-> <<o + 1, 2, 3>> ]

\* parent functions without a cycle: following parents from any object
\* reaches None within n steps
RECURSIVE Ancestor(_, _, _)
Ancestor(parent, o, k) ==
    IF o = 0 \/ k = 0 THEN o ELSE Ancestor(parent, parent[o], k - 1)

Forests(n) ==
    {parent \in [1..n -> 0..n] : \A o \in 1..n : Ancestor(parent, o, n) = 0}

MakeObject(o, kind, parent, xf) ==
    [ name |-> ObjNames[o], type |-> kind.type, data |-> kind.data,
      parent |-> parent, location |-> xf.location,
      rotation |-> xf.rotation, scale |-> xf.scale ]

\* The vertex orders of the triangles and quads on the first nv vertices
\* that wind one way round: the rotations of an increasing sequence.
Polys(nv) ==
    {s \in InjSeq(1..nv, 3) \cup InjSeq(1..nv, 4) :
        Cardinality({i \in DOMAIN s : s[i] > s[(i % Len(s)) + 1]}) = 1}

FacesOn(nv) ==
    {[verts |-> vs, material_index |-> mi] : vs \in Polys(nv), mi \in 0..MaxMats}

\* A mesh of the mesh family: nv vertices, nm material slots, nu UV layers.
FamilyMesh(nv, nm, faces, nu, col) ==
    [ name |-> <<"Mesh">>,
      materials |-> SubSeq(MatNames, 1, nm),
      verts |-> [v \in 1..nv |-> VertCo(v)],
      faces |-> faces,
      uv_layers |-> SubSeq(UVNames, 1, nu),
      has_color |-> col ]

\* --------------------------------------------------------------- state
VARIABLES
    objects,            \* bpy.data.objects: objects[o] for o in 1..n
    bpy_meshes,         \* bpy.data.meshes: mesh name -> mesh datablock
    selected_objects,   \* context.selected_objects (all objects: context None)
    separate_objects,   \* the parameter of do_export
    pc,                 \* the position of the run
    obj_list,           \* SceneExporter.obj_list: the ObjectHeirachy list
    counter,            \* the hierarchy being exported (from 1)
    uv_list,            \* HeirachyExporter.uv_list
    mesh_list,          \* HeirachyExporter.mesh_list
    mesh_data_list,     \* the MeshParser of every mesh of mesh_list
    node_data,          \* generate_node_data()[0]
    parents,            \* generate_node_data()[1]
    material_list,      \* what export_mappings returns
    files,              \* the output directories: path -> content
    writes              \* how many times each path was opened for writing

scene == <<objects, selected_objects, separate_objects>>

exporter == <<uv_list, mesh_list, mesh_data_list, node_data, parents, material_list>>

vars == <<scene, bpy_meshes, pc, obj_list, counter, exporter, files, writes>>

\* The name of the export, path_data['name'].
ExportName == "scene"

InitRun ==
    /\ pc = "start"
    /\ obj_list = <<>>
    /\ counter = 0
    /\ uv_list = <<>>
    /\ mesh_list = <<>>
    /\ mesh_data_list = <<>>
    /\ node_data = <<>>
    /\ parents = <<>>
    /\ material_list = <<>>
    /\ files = <<>>
    /\ writes = <<>>

\* A scene of NObj objects on the scene family's datablocks, of which the
\* first sel are selected.
Init ==
    /\ \E kind \in [1..NObj -> ObjKinds], parent \in Forests(NObj) :
          objects = [o \in 1..NObj |-> MakeObject(o, kind[o], parent[o], Transform(o))]
    /\ bpy_meshes = [n \in {m.name : m \in SceneMeshes} |->
                        CHOOSE m \in SceneMeshes : m.name = n]
    /\ \E sel \in 0..NObj : selected_objects = [i \in 1..sel |-> i]
    /\ separate_objects \in BOOLEAN
    /\ InitRun

\* A scene of one selected, parentless mesh object on the given mesh.
MeshScene(mesh) ==
    /\ objects = <<MakeObject(1, [type |-> "MESH", data |-> MeshData(mesh)],
                              0, Transform(1))>>
    /\ bpy_meshes = (mesh.name :> mesh)
    /\ selected_objects = <<1>>
    /\ separate_objects = FALSE
    /\ InitRun

\* The mesh of the scene is one of the scene's datablocks, the quad mesh,
\* or any of the mesh family: at most MaxVerts vertices, MaxFaces faces,
\* MaxMats material slots and MaxUV UV layers, the face material indices
\* running up to MaxMats (so past the last slot too).
InitMesh ==
    \/ \E mesh \in SceneMeshes \cup {QuadMesh} : MeshScene(mesh)
    \/ \E nv \in 0..MaxVerts, nm \in 0..MaxMats, nu \in 0..MaxUV, col \in BOOLEAN :
          \E faces \in SeqUpTo(FacesOn(nv), MaxFaces) :
             MeshScene(FamilyMesh(nv, nm, faces, nu, col))

\* --------------------------------------------------------------- files
\* json.dump(content, open(path, 'w')): the file holds the new content
Write(fs, path, content) ==
    [q \in DOMAIN fs \cup {path} |-> IF q = path THEN content ELSE fs[q]]

Count(ws, path) == IF path \in DOMAIN ws THEN ws[path] ELSE 0

Bump(ws, path) ==
    [q \in DOMAIN ws \cup {path} |-> IF q = path THEN Count(ws, path) + 1 ELSE ws[q]]

\* os.path.join(path_data['mesh'], name + '.json') and the like
MeshFile(name) == <<"mesh", name, "json">>

MappingFile(name) == <<"mesh", name, "mapping.json">>

MatFile(name) == <<"mat", name, "json">>

\* os.path.join(os.path.relpath(path_data['mat'], path_data['mesh']), name + '.json')
RelMatPath(name) == <<"mesh->mat", name, "json">>

\* ------------------------------------------------------- SceneExporter
RECURSIVE children_recursive(_, _)
RECURSIVE ChildLists(_, _)
\* the loop of children_recursive over root_node.children
ChildLists(objs, kids) ==
    IF kids = <<>> THEN <<>>
    ELSE children_recursive(objs, Head(kids)) \o <<Head(kids)>>
         \o ChildLists(objs, Tail(kids))

children_recursive(objs, root_node) ==
    LET IsChild(o) == objs[o].parent = root_node
    IN  ChildLists(objs, SelectSeq([o \in DOMAIN objs |-> o], IsChild))

\* ObjectHeirachy(name, root_obj)
ObjectHeirachy(objs, name, root_obj) ==
    [ name |-> name,
      objects |-> IF root_obj # 0
                  THEN children_recursive(objs, root_obj) \o <<root_obj>>
                  ELSE <<>> ]

\* SceneExporter.__init__ up to its loop: the list of hierarchies
SceneObjList(objs, ol, separate) ==
    IF ~separate
    THEN <<[ObjectHeirachy(objs, ExportName, 0) EXCEPT !.objects = ol]>>
    ELSE LET IsRoot(o) == objs[o].parent = 0
             roots == SelectSeq(ol, IsRoot)
         IN  [i \in DOMAIN roots |->
                 ObjectHeirachy(objs, objs[roots[i]].name, roots[i])]

\* do_export: make_directories, then SceneExporter up to its loop
DoExport ==
    /\ pc = "start"
    /\ obj_list' = SceneObjList(objects, selected_objects, separate_objects)
    /\ counter' = 1
    /\ pc' = IF obj_list' = <<>> THEN "done" ELSE "uv_list"
    /\ files' = [d \in {<<"mat">>, <<"mesh">>, <<"img">>} |-> [dir |-> TRUE]]
    /\ UNCHANGED <<scene, bpy_meshes, exporter, writes>>

\* ---------------------------------------------------- HeirachyExporter
heirachy == obj_list[counter]

\* HeirachyExporter.generate_uv_list
generate_uv_list(objs, meshes, h) ==
    Concat([i \in DOMAIN h.objects |->
               IF objs[h.objects[i]].type = "MESH"
               THEN meshes[objs[h.objects[i]].data.name].uv_layers
               ELSE <<>>])

\* A new HeirachyExporter: self.uv_list = self.generate_uv_list()
GenerateUvList ==
    /\ pc = "uv_list"
    /\ uv_list' = generate_uv_list(objects, bpy_meshes, heirachy)
    /\ mesh_list' = <<>>
    /\ mesh_data_list' = <<>>
    /\ node_data' = <<>>
    /\ parents' = <<>>
    /\ material_list' = <<>>
    /\ pc' = "mesh_list"
    /\ UNCHANGED <<scene, bpy_meshes, obj_list, counter, files, writes>>

\* bpy.data.meshes.new(base): the first free name among base, base.001, ...
Digits == <<"0", "1", "2", "3", "4", "5", "6", "7", "8", "9">>

Suffixed(base, k) ==
    IF k = 0 THEN base
    ELSE base \o <<Digits[((k \div 100) % 10) + 1], Digits[((k \div 10) % 10) + 1],
                   Digits[(k % 10) + 1]>>

RECURSIVE FreeName(_, _, _)
FreeName(names, base, k) ==
    IF Suffixed(base, k) \notin names THEN Suffixed(base, k)
    ELSE FreeName(names, base, k + 1)

\* The placeholder of generate_mesh_list: one triangle on three vertices
\* at the origin.
EmptyMesh(name) ==
    [ name |-> name, materials |-> <<>>,
      verts |-> <<(<<0, 0, 0>>), (<<0, 0, 0>>), (<<0, 0, 0>>)>>,
      faces |-> << [verts |-> <<1, 2, 3>>, material_index |-> 0] >>,
      uv_layers |-> <<>>, has_color |-> FALSE ]

\* raw_meshes after the first loop of generate_mesh_list, as the list of
\* <<mesh name, instances>> in the order the names were first met.
RECURSIVE RawMeshes(_, _, _, _)
RawMeshes(objs, ol, empty_name, raw) ==
    IF ol = <<>> THEN raw
    ELSE LET obj == Head(ol)
             name == IF objs[obj].type = "MESH" THEN objs[obj].data.name
                     ELSE empty_name
             Has(e) == e[1] = name
             new == IF SelectSeq(raw, Has) = <<>>
                    THEN Append(raw, <<name, <<obj>> >>)
                    ELSE [i \in DOMAIN raw |->
                             IF raw[i][1] = name
                             THEN <<name, Append(raw[i][2], obj)>> ELSE raw[i]]
         IN  RawMeshes(objs, Tail(ol), empty_name, new)

\* The meshes of raw whose faces are not all triangles.
QuadMeshes(meshes, raw) ==
    {i \in DOMAIN raw :
        \E f \in DOMAIN meshes[raw[i][1]].faces :
            Len(meshes[raw[i][1]].faces[f].verts) > 3}

\* The second loop of generate_mesh_list, over raw_meshes in the order
\* `order` (a permutation of its positions), quads cut as diag says.
SplitAll(meshes, raw, order, diag) ==
    Concat([k \in DOMAIN order |->
               LET i == order[k]
               IN  separate_mesh_by_material(
                       meshes[raw[i][1]], raw[i][2],
                       IF i \in DOMAIN diag THEN diag[i] ELSE 0)])

\* HeirachyExporter.generate_mesh_list.  The dict raw_meshes is iterated
\* in an order the Python build decides, and the triangulation picks the
\* diagonal of a quad from its geometry: both are choices here.
GenerateMeshList ==
    /\ pc = "mesh_list"
    /\ LET empty_name == FreeName(DOMAIN bpy_meshes, <<"EmptyMesh">>, 0)
           meshes == bpy_meshes @@ (empty_name :> EmptyMesh(empty_name))
           raw == RawMeshes(objects, heirachy.objects, empty_name, <<>>)
       IN  /\ bpy_meshes' = meshes
           /\ \E order \in InjSeq(DOMAIN raw, Len(raw)),
                 diag \in [QuadMeshes(meshes, raw) -> {0, 1}] :
                 mesh_list' = SplitAll(meshes, raw, order, diag)
    /\ pc' = "parse"
    /\ UNCHANGED <<scene, obj_list, counter, uv_list, mesh_data_list,
                   node_data, parents, material_list, files, writes>>

\* bmesh.to_mesh(mesh) into a new datablock: vertices in bmesh order, faces
\* on vertex positions
ToMesh(bm, name) ==
    LET Pos(id) == CHOOSE i \in DOMAIN bm.verts : bm.verts[i].id = id
    IN  [ name |-> name, materials |-> <<>>,
          verts |-> [i \in DOMAIN bm.verts |-> bm.verts[i].co],
          faces |-> [f \in DOMAIN bm.faces |->
                        [ verts |-> [c \in DOMAIN bm.faces[f].verts |->
                                        Pos(bm.faces[f].verts[c])],
                          material_index |-> bm.faces[f].material_index ]],
          uv_layers |-> bm.uv_layers, has_color |-> bm.has_color ]

\* bpy.data.meshes.new("TmpMesh") of every MeshParser.update_mesh_data
RECURSIVE AddTmpMeshes(_, _)
AddTmpMeshes(meshes, ml) ==
    IF ml = <<>> THEN meshes
    ELSE LET name == FreeName(DOMAIN meshes, <<"TmpMesh">>, 0)
         IN  AddTmpMeshes(meshes @@ (name :> ToMesh(Head(ml)[2], name)), Tail(ml))

\* mesh_data_list.append(MeshParser(mesh, mesh_id, self.uv_list)) for
\* mesh_id, mesh in enumerate(self.mesh_list)
ParseMeshes ==
    /\ pc = "parse"
    /\ mesh_data_list' =
          [i \in DOMAIN mesh_list |-> MeshParser(mesh_list[i], i - 1, uv_list)]
    /\ bpy_meshes' = AddTmpMeshes(bpy_meshes, mesh_list)
    /\ pc' = "nodes"
    /\ UNCHANGED <<scene, obj_list, counter, uv_list, mesh_list,
                   node_data, parents, material_list, files, writes>>

\* for mesh in self.mesh_list: for instance in mesh[2]: the instances
Instances(ml) == Concat([i \in DOMAIN ml |-> ml[i][3]])

\* mathutils.Vector(transform.to_euler()) * 180 / math.pi, for an angle
\* given in quarter turns (pi/2 radians)
ToDegrees(euler) == [k \in DOMAIN euler |-> (euler[k] * 180) \div 2]

\* node_dict of generate_node_data for one instance
NodeDict(obj) ==
    LET position == IF obj.parent # 0 THEN obj.location ELSE <<0, 0, 0>>
        corrected_rotation ==
            IF obj.parent # 0 THEN ToDegrees(obj.rotation) ELSE <<0, 0, 0>>
    IN  [ name |-> obj.name, position |-> position,
          rotation |-> corrected_rotation, scale |-> obj.scale ]

\* ParentId with the index taken one too far.
ParentId_OffByOne(objs, obj, node_name_list) ==
    IF obj.parent # 0 /\ objs[obj.parent].name \in Range(node_name_list)
    THEN Index(node_name_list, objs[obj.parent].name) + 2
    ELSE 0

\* ParentId with the last node of the parent's name instead of the first.
ParentId_LastMatch(objs, obj, node_name_list) ==
    IF obj.parent # 0 /\ objs[obj.parent].name \in Range(node_name_list)
    THEN CHOOSE j \in DOMAIN node_name_list :
            /\ node_name_list[j] = objs[obj.parent].name
            /\ \A l \in DOMAIN node_name_list :
                  l > j => node_name_list[l] # objs[obj.parent].name
    ELSE 0

\* parent_id of generate_node_data for one instance
ParentId(objs, obj, node_name_list) ==
    IF obj.parent # 0 /\ objs[obj.parent].name \in Range(node_name_list)
    THEN Index(node_name_list, objs[obj.parent].name) + 1
    ELSE 0

\* HeirachyExporter.generate_node_data
generate_node_data(objs, ml) ==
    LET inst == Instances(ml)
        nodes == [i \in DOMAIN inst |-> NodeDict(objs[inst[i]])]
        node_name_list == [i \in DOMAIN nodes |-> nodes[i].name]
    IN  [ node_data |-> nodes,
          parent_list |-> [i \in DOMAIN inst |->
                              ParentId(objs, objs[inst[i]], node_name_list)] ]

GenerateNodeData ==
    /\ pc = "nodes"
    /\ LET r == generate_node_data(objects, mesh_list)
       IN  /\ node_data' = r.node_data
           /\ parents' = r.parent_list
    /\ pc' = "mappings"
    /\ UNCHANGED <<scene, bpy_meshes, obj_list, counter, uv_list, mesh_list,
                   mesh_data_list, material_list, files, writes>>

\* mapping_list of export_mappings: the mesh of every instance
MappingList(ml) ==
    Concat([i \in DOMAIN ml |-> [j \in DOMAIN ml[i][3] |-> ml[i]]])

\* for face in mesh_map[1].faces: mat_id = face.material_index; break
\* (mat_id keeps its earlier value when the mesh has no face)
FirstFaceMatId(bm, mat_id) ==
    IF bm.faces # <<>> THEN bm.faces[1].material_index ELSE mat_id

\* DictSet on a list instead of a dict: a key met again is added again.
DictSet_NoDedup(keys, k) == Append(keys, k)

\* materials[mat.name] = mat on the dict kept as the list of its keys
DictSet(keys, k) == IF k \in Range(keys) THEN keys ELSE Append(keys, k)

\* The loop of export_mappings over mapping_list.  acc holds mat_id, the
\* mapping written so far, the keys of materials, and the files.
RECURSIVE MappingLoop(_, _, _)
MappingLoop(objs, mapping_list, acc) ==
    IF mapping_list = <<>> THEN acc
    ELSE LET mesh_map == Head(mapping_list)
             mat_id == FirstFaceMatId(mesh_map[2], acc.mat_id)
             data == objs[mesh_map[3][1]].data
             next ==
                IF data.materials # <<>>
                THEN LET mat == data.materials[mat_id + 1]
                     IN  [acc EXCEPT
                            !.mat_id = mat_id,
                            !.mapping = Append(@, [path |-> RelMatPath(mat)]),
                            !.materials = DictSet(@, mat)]
                ELSE [acc EXCEPT
                        !.mat_id = mat_id,
                        !.mapping = Append(@, [path |-> RelMatPath("None")]),
                        !.files = Write(@, MatFile("None"),
                                        [mapping_format |-> "path"]),
                        !.writes = Bump(@, MatFile("None"))]
         IN  MappingLoop(objs, Tail(mapping_list), next)

\* HeirachyExporter.export_mappings
export_mappings(objs, ml, name, fs, ws) ==
    LET acc == MappingLoop(objs, MappingList(ml),
                   [mat_id |-> "unbound", mapping |-> <<>>, materials |-> <<>>,
                    files |-> fs, writes |-> ws])
    IN  [ material_list |-> acc.materials,
          files |-> Write(acc.files, MappingFile(name), [mapping |-> acc.mapping]),
          writes |-> Bump(acc.writes, MappingFile(name)) ]

ExportMappings ==
    /\ pc = "mappings"
    /\ LET r == export_mappings(objects, mesh_list, heirachy.name, files, writes)
       IN  /\ material_list' = r.material_list
           /\ files' = r.files
           /\ writes' = r.writes
    /\ pc' = "materials"
    /\ UNCHANGED <<scene, bpy_meshes, obj_list, counter, uv_list, mesh_list,
                   mesh_data_list, node_data, parents>>

\* MaterialExporter(mat, uv_list, path_data): the descriptor it dumps.  The
\* materials of the scenes have no texture slot in use, so no image is
\* copied.
MaterialExporter(mat) == [mapping_format |-> "path", name |-> mat]

RECURSIVE WriteMaterials(_, _)
WriteMaterials(mats, fw) ==
    IF mats = <<>> THEN fw
    ELSE WriteMaterials(Tail(mats),
            [ files |-> Write(fw.files, MatFile(Head(mats)), MaterialExporter(Head(mats))),
              writes |-> Bump(fw.writes, MatFile(Head(mats))) ])

\* for mat in material_list: MaterialExporter(mat, self.uv_list, path_data)
ExportMaterials ==
    /\ pc = "materials"
    /\ LET r == WriteMaterials(material_list, [files |-> files, writes |-> writes])
       IN  /\ files' = r.files
           /\ writes' = r.writes
    /\ pc' = "main"
    /\ UNCHANGED <<scene, bpy_meshes, obj_list, counter, exporter>>

\* InstanceLoop with node_id counting per mesh rather than per instance.
RECURSIVE InstanceLoop_NodePerMesh(_, _, _)
InstanceLoop_NodePerMesh(ml, mesh_id, node_id) ==
    IF mesh_id >= Len(ml) THEN <<>>
    ELSE LET n == Len(ml[mesh_id + 1][3])
         IN  [k \in 1..n |-> [node |-> node_id + k - 1, mesh |-> mesh_id]]
             \o InstanceLoop_NodePerMesh(ml, mesh_id + 1, node_id + 1)

\* HeirachyExporter.generate_instance_data
RECURSIVE InstanceLoop(_, _, _)
InstanceLoop(ml, mesh_id, node_id) ==
    IF mesh_id >= Len(ml) THEN <<>>
    ELSE LET n == Len(ml[mesh_id + 1][3])
         IN  [k \in 1..n |-> [node |-> node_id + k - 1, mesh |-> mesh_id]]
             \o InstanceLoop(ml, mesh_id + 1, node_id + n)

\* generate_instance_data with node_id counted from 0, the root node's index.
generate_instance_data_FromZero(ml) == InstanceLoop(ml, 0, 0)

generate_instance_data(ml) == InstanceLoop(ml, 0, 1)

\* The keys of a MeshParser (vert_data is an attribute, not a key).
MeshDict(m) ==
    [ vertices |-> m.vertices, indices |-> m.indices, aabb |-> m.aabb,
      type |-> m.type, base |-> m.base, count |-> m.count ]

RootNode ==
    [ name |-> "RootNode", position |-> <<0, 0, 0>>,
      rotation |-> <<0, 0, 0>>, scale |-> <<1, 1, 1>> ]

\* output of HeirachyExporter.__init__
MainDocument(nodes, parent_list, mdl, ml) ==
    [ model |->
        [ version |-> 2,
          nodes |-> <<RootNode>> \o nodes,
          parents |-> <<-1>> \o parent_list,
          skins |-> <<>>,
          vertices |-> [i \in DOMAIN mdl |-> mdl[i].vert_data],
          meshes |-> [i \in DOMAIN mdl |-> MeshDict(mdl[i])],
          meshInstances |-> generate_instance_data(ml) ] ]

\* The main file is dumped, and SceneExporter's loop goes on.
ExportMain ==
    /\ pc = "main"
    /\ files' = Write(files, MeshFile(heirachy.name),
                      MainDocument(node_data, parents, mesh_data_list, mesh_list))
    /\ writes' = Bump(writes, MeshFile(heirachy.name))
    /\ counter' = counter + 1
    /\ pc' = IF counter < Len(obj_list) THEN "uv_list" ELSE "done"
    /\ UNCHANGED <<scene, bpy_meshes, obj_list, exporter>>

Next ==
    \/ DoExport
    \/ GenerateUvList
    \/ GenerateMeshList
    \/ ParseMeshes
    \/ GenerateNodeData
    \/ ExportMappings
    \/ ExportMaterials
    \/ ExportMain

Spec == Init /\ [][Next]_vars

SpecMesh == InitMesh /\ [][Next]_vars

\* ------------------------------------------------------------- reading
\* What the claims read from a state.

\* The hierarchy whose main document was written last, while the exporter
\* that wrote it still holds its lists.
JustExported == counter > 1 /\ pc \in {"uv_list", "done"}

LastHeirachy == obj_list[counter - 1]

\* The main document and the mapping document of the hierarchy exported last.
LastDoc == files[MeshFile(LastHeirachy.name)].model

LastMapping == files[MappingFile(LastHeirachy.name)].mapping

\* The datablock a sub-mesh of mesh_list was split from.
SourceMesh(sub) ==
    IF sub[1] \in DOMAIN bpy_meshes THEN bpy_meshes[sub[1]]
    ELSE bpy_meshes[SubSeq(sub[1], 1, Len(sub[1]) - 1)]

\* Triangles of a mesh once triangulated: a polygon of n corners gives n - 2.
RECURSIVE TriangleCount(_)
TriangleCount(faces) ==
    IF faces = <<>> THEN 0
    ELSE Len(Head(faces).verts) - 2 + TriangleCount(Tail(faces))

RECURSIVE SumFaces(_)
SumFaces(ml) == IF ml = <<>> THEN 0 ELSE Len(Head(ml)[2].faces) + SumFaces(Tail(ml))

\* ------------------------------------------------------------------ C1
\* C1 as stated: in every main document parents[0] = -1, and for i > 0
\* parents[i] is 0 or an index j < i of nodes (the parent is listed before
\* its child).
C1_ParentListedBeforeChild ==
    JustExported =>
        LET p == LastDoc.parents
        IN  /\ p[1] = -1
            /\ \A t \in 2..Len(p) :
                  p[t] = 0 \/ (p[t] >= 1 /\ p[t] < t - 1 /\ p[t] <= Len(LastDoc.nodes) - 1)

\* C1 (amended): in every main document parents[0] = -1, and for i > 0
\* parents[i] is 0 or the index of a node other than the root, wherever in
\* the list that node stands.
C1_ParentIsANode ==
    JustExported =>
        LET p == LastDoc.parents
        IN  /\ p[1] = -1
            /\ Len(p) = Len(LastDoc.nodes)
            /\ \A t \in 2..Len(p) :
                  p[t] = 0 \/ (p[t] >= 1 /\ p[t] <= Len(LastDoc.nodes) - 1)

\* A document in which a child stands before its parent.
C1_Witness ==
    /\ JustExported
    /\ \E t \in 2..Len(LastDoc.parents) : LastDoc.parents[t] > t - 1

\* ------------------------------------------------------------------ C2
\* C2 as stated: the triangle counts of the sub-meshes that
\* separate_mesh_by_material returns for a mesh sum to the mesh's
\* triangulated face count, and no triangle is in two of them.
C2_EveryFaceInOneSubMesh ==
    (pc = "parse" /\ Len(heirachy.objects) = 1
        /\ objects[heirachy.objects[1]].type = "MESH") =>
        LET mesh == bpy_meshes[objects[heirachy.objects[1]].data.name]
        IN  /\ SumFaces(mesh_list) = TriangleCount(mesh.faces)
            /\ \A a, b \in DOMAIN mesh_list :
                  a # b => \A f \in DOMAIN mesh_list[a][2].faces,
                              g \in DOMAIN mesh_list[b][2].faces :
                                 mesh_list[a][2].faces[f] # mesh_list[b][2].faces[g]

\* ------------------------------------------------------------------ C3
\* The material file a mapping path names, seen from the mesh directory.
Resolve(path) == MatFile(path[2])

\* The material file of the material the faces of a sub-mesh use: None.json
\* when the mesh it was split from has no materials.
UsedMatFile(sub) ==
    LET src == SourceMesh(sub)
    IN  IF src.materials = <<>> \/ sub[2].faces = <<>> THEN MatFile("None")
        ELSE MatFile(src.materials[sub[2].faces[1].material_index + 1])

\* C3 as stated: mapping and meshInstances have the same length, and
\* mapping[i].path names the material file of the material used by the
\* faces of sub-mesh meshInstances[i].mesh (None.json when that mesh has no
\* materials).
C3_MappingNamesUsedMaterial ==
    JustExported =>
        LET mi == LastDoc.meshInstances
        IN  /\ Len(LastMapping) = Len(mi)
            /\ \A i \in DOMAIN mi :
                  Resolve(LastMapping[i].path) = UsedMatFile(mesh_list[mi[i].mesh + 1])

\* ------------------------------------------------------------------ C4
\* The hierarchies whose mapping document names material m.
Referencing(m) ==
    {k \in DOMAIN obj_list :
        /\ MappingFile(obj_list[k].name) \in DOMAIN files
        /\ \E e \in Range(files[MappingFile(obj_list[k].name)].mapping) :
              e.path = RelMatPath(m)}

\* C4 as stated: at the end of a run, the descriptor file of every material
\* that was exported has been written exactly once.
C4_MaterialWrittenOncePerRun ==
    pc = "done" =>
        \A m \in Range(MatNames) :
            MatFile(m) \in DOMAIN files => Count(writes, MatFile(m)) = 1

\* C4 (amended): once the materials of a hierarchy are exported, the
\* descriptor file of every material has been written once for each
\* hierarchy whose mapping references it, however many mapping entries of
\* that hierarchy reference it; it is one file in the material directory.
C4_MaterialWrittenOncePerHeirachy ==
    pc \notin {"start", "materials"} =>
        \A m \in Range(MatNames) :
            /\ Count(writes, MatFile(m)) = Cardinality(Referencing(m))
            /\ (MatFile(m) \in DOMAIN files) = (Referencing(m) # {})

\* One hierarchy whose mapping names a material twice, its file written once.
C4_Witness ==
    /\ pc = "main"
    /\ \E m \in Range(MatNames) :
          /\ Count(writes, MatFile(m)) = 1
          /\ \E i, j \in DOMAIN files[MappingFile(heirachy.name)].mapping :
                /\ i # j
                /\ files[MappingFile(heirachy.name)].mapping[i].path = RelMatPath(m)
                /\ files[MappingFile(heirachy.name)].mapping[j].path = RelMatPath(m)

\* ------------------------------------------------------------------ C5
\* C5: for every sub-mesh MeshParser processed, len(indices) = count =
\* 3 * triangles, the indices are 0..count-1 each once, and position,
\* normal, every texCoordN of its UV layers and color (when the mesh has
\* colours) hold count groups of their component size with no slot left None.
C5_FlattenedBuffers ==
    \A i \in DOMAIN mesh_data_list :
        LET m == mesh_data_list[i]
            bm == mesh_list[i][2]
            keys == {<<"position">>, <<"normal">>}
                    \cup (IF bm.has_color THEN {<<"color">>} ELSE {})
                    \cup {<<"texCoord", Index(uv_list, bm.uv_layers[l])>> :
                             l \in DOMAIN bm.uv_layers}
        IN  /\ Len(m.indices) = m.count
            /\ m.count = 3 * Len(bm.faces)
            /\ Range(m.indices) = 0..(m.count - 1)
            /\ DOMAIN m.vert_data = keys
            /\ Cardinality(keys) = 2 + (IF bm.has_color THEN 1 ELSE 0) + Len(bm.uv_layers)
            /\ \A key \in keys :
                  LET a == m.vert_data[key]
                  IN  /\ DOMAIN a.data = 0..(m.count * a.components - 1)
                      /\ \A slot \in DOMAIN a.data : a.data[slot] # None

\* A parsed sub-mesh of two triangles cut from one quad, with colours and
\* UV layers.
C5_Witness ==
    \E i \in DOMAIN mesh_data_list :
        /\ mesh_data_list[i].count = 6
        /\ \E f \in Range(SourceMesh(mesh_list[i]).faces) : Len(f.verts) = 4
        /\ mesh_list[i][2].has_color
        /\ mesh_list[i][2].uv_layers # <<>>

\* ------------------------------------------------------------------ C6
\* C6 as stated: every object of a hierarchy's object list has at least one
\* mesh instance and one node record in the hierarchy's main document.
C6_EveryObjectHasASlot ==
    JustExported =>
        \A o \in Range(LastHeirachy.objects) :
            /\ \E k \in DOMAIN Instances(mesh_list) : Instances(mesh_list)[k] = o
            /\ \E n \in 2..Len(LastDoc.nodes) : LastDoc.nodes[n].name = objects[o].name
            /\ Len(LastDoc.meshInstances) = Len(Instances(mesh_list))

\* ------------------------------------------------------------------ C7
\* C7 as stated: the meshInstances entries of the sub-meshes of one source
\* object all carry the same node id.
C7_SubMeshesShareNode ==
    JustExported =>
        LET mi == LastDoc.meshInstances
            inst == Instances(mesh_list)
        IN  \A a, b \in DOMAIN mi : inst[a] = inst[b] => mi[a].node = mi[b].node

\* The hierarchy is a two-material cube and a sibling without materials.
CubeAndPlane ==
    /\ Len(LastHeirachy.objects) = 2
    /\ {objects[o].data.name : o \in Range(LastHeirachy.objects)}
          = {CubeMesh.name, PlaneMesh.name}

\* C7 (amended): every meshInstances entry carries a node id of its own,
\* that of a node record named after its object, so an object split into
\* several sub-meshes has one node record per sub-mesh; a two-material cube
\* with a sibling without materials gives three entries, on meshes 0, 1, 2
\* and nodes 1, 2, 3.
C7_OneNodePerSubMesh ==
    JustExported =>
        LET mi == LastDoc.meshInstances
            inst == Instances(mesh_list)
        IN  /\ Len(mi) = Len(inst)
            /\ \A a, b \in DOMAIN mi : a # b => mi[a].node # mi[b].node
            /\ \A a \in DOMAIN mi :
                  /\ mi[a].node \in 1..(Len(LastDoc.nodes) - 1)
                  /\ LastDoc.nodes[mi[a].node + 1].name = objects[inst[a]].name
            /\ CubeAndPlane =>
                  /\ [a \in DOMAIN mi |-> mi[a].mesh] = <<0, 1, 2>>
                  /\ [a \in DOMAIN mi |-> mi[a].node] = <<1, 2, 3>>

\* The two-material cube with its sibling, exported.
C7_Witness ==
    /\ JustExported
    /\ CubeAndPlane
    /\ \E a, b \in DOMAIN Instances(mesh_list) :
          a # b /\ Instances(mesh_list)[a] = Instances(mesh_list)[b]

\* ------------------------------------------------------------------ C8
\* The coordinates on axis k of the face corners of a sub-mesh.
CornerCoords(bm, k) == {CoOf(bm, Corners(bm)[c])[k] : c \in DOMAIN Corners(bm)}

\* C8 as stated: for every parsed sub-mesh with at least one face, the aabb
\* has on each axis min equal to the least and max equal to the greatest
\* coordinate over the face corners, whatever the order of the corners.
C8_AabbIsExtent ==
    \A i \in DOMAIN mesh_data_list :
        mesh_list[i][2].faces # <<>> =>
            \A k \in 1..3 :
                LET cs == CornerCoords(mesh_list[i][2], k)
                IN  /\ mesh_data_list[i].aabb.min[k] \in cs
                    /\ \A c \in cs : mesh_data_list[i].aabb.min[k] <= c
                    /\ mesh_data_list[i].aabb.max[k] \in cs
                    /\ \A c \in cs : mesh_data_list[i].aabb.max[k] >= c

\* ------------------------------------------------------------------ C9
\* C9 as stated: the node record of every instance without a parent has
\* position [0,0,0], rotation [0,0,0] and scale [1,1,1], whatever the
\* object's location, rotation and scale.
C9_ParentlessNodeIsIdentity ==
    JustExported =>
        LET inst == Instances(mesh_list)
        IN  \A k \in DOMAIN inst :
                objects[inst[k]].parent = 0 =>
                    /\ LastDoc.nodes[k + 1].position = <<0, 0, 0>>
                    /\ LastDoc.nodes[k + 1].rotation = <<0, 0, 0>>
                    /\ LastDoc.nodes[k + 1].scale = <<1, 1, 1>>

\* ----------------------------------------------------------------- C10
\* The names of the node records after the root: the flattened node-name
\* list.
NodeNames == [k \in 1..(Len(LastDoc.nodes) - 1) |-> LastDoc.nodes[k + 1].name]

\* C10: the parents entry of every instance is 1 + the index of the first
\* node record of the flattened node-name list that carries the name of the
\* instance's parent; it is 0 when the instance has no parent or no record
\* carries that name; it is never out of range of nodes.
C10_ParentIsFirstMatch ==
    JustExported =>
        LET inst == Instances(mesh_list)
            p == LastDoc.parents
        IN  \A k \in DOMAIN inst :
                LET par == objects[inst[k]].parent
                    hits == IF par = 0 THEN {}
                            ELSE {j \in DOMAIN NodeNames :
                                     NodeNames[j] = objects[par].name}
                IN  /\ hits = {} => p[k + 1] = 0
                    /\ hits # {} =>
                          /\ p[k + 1] - 1 \in {j - 1 : j \in hits}
                          /\ \A j \in hits : p[k + 1] - 1 <= j - 1
                    /\ p[k + 1] \in 0..(Len(LastDoc.nodes) - 1)

\* An instance whose parent's name is carried by two node records.
C10_Witness ==
    /\ JustExported
    /\ \E k \in DOMAIN Instances(mesh_list) :
          LET par == objects[Instances(mesh_list)[k]].parent
          IN  /\ par # 0
              /\ Cardinality({j \in DOMAIN NodeNames :
                                 NodeNames[j] = objects[par].name}) >= 2
              /\ LastDoc.parents[k + 1] >= 1

\* ----------------------------------------------------------------- C11
\* C11 as stated: every sub-mesh separate_mesh_by_material returns, the
\* single sub-mesh of a mesh without materials included, has only faces of
\* three vertices, no vertex that no face references, and at least one
\* vertex.
C11_SubMeshesArePruned ==
    \A i \in DOMAIN mesh_list :
        LET bm == mesh_list[i][2]
        IN  /\ \A f \in DOMAIN bm.faces : Len(bm.faces[f].verts) = 3
            /\ \A v \in DOMAIN bm.verts :
                  \E f \in DOMAIN bm.faces : bm.verts[v].id \in Range(bm.faces[f].verts)
            /\ bm.verts # <<>>

\* ----------------------------------------------------------------- C12
\* The N of every texCoordN key of the vertex data of the parsed sub-meshes.
SuffixesUsed ==
    {key[2] : key \in {q \in UNION {DOMAIN mesh_data_list[i].vert_data :
                                        i \in DOMAIN mesh_data_list} :
                           q[1] = "texCoord"}}

\* C12 as stated: the list generate_uv_list builds for a hierarchy holds
\* every UV layer name at most once, and once the sub-meshes are parsed the
\* texCoordN suffixes in use are the positions 0..k-1 of its k names.
C12_UvRegistryIsDistinct ==
    /\ \A a, b \in DOMAIN uv_list : uv_list[a] = uv_list[b] => a = b
    /\ (pc \in {"nodes", "mappings", "materials", "main"} \/ JustExported) =>
          SuffixesUsed = 0..(Cardinality(Range(uv_list)) - 1)

\* ----------------------------------------------------------------- C13
\* The (sub-mesh, instance) pairs of mesh_list before sub-mesh m + 1.
PairsBefore(m) == Len(Instances(SubSeq(mesh_list, 1, m)))

\* C13: in every main document nodes and parents have one entry more than
\* meshInstances, and vertices as many as meshes; meshInstances[k] is on
\* node k + 1, which carries the name of the instance it was made for, and
\* on the sub-mesh that instance stands under; meshes[m].vertices is m; the
\* mesh ids never decrease and are within range of meshes.
C13_DocumentListsAgree ==
    JustExported =>
        LET d == LastDoc
            mi == d.meshInstances
            inst == Instances(mesh_list)
        IN  /\ Len(d.nodes) = Len(d.parents)
            /\ Len(d.nodes) = 1 + Len(mi)
            /\ Len(d.vertices) = Len(d.meshes)
            /\ Len(mi) = Len(inst)
            /\ \A k \in DOMAIN mi :
                  /\ mi[k].node = k
                  /\ d.nodes[mi[k].node + 1].name = objects[inst[k]].name
                  /\ mi[k].mesh \in 0..(Len(d.meshes) - 1)
                  /\ PairsBefore(mi[k].mesh) < k
                  /\ k <= PairsBefore(mi[k].mesh + 1)
                  /\ k > 1 => mi[k - 1].mesh <= mi[k].mesh
            /\ \A m \in DOMAIN d.meshes : d.meshes[m].vertices = m - 1

\* A document in which two instances stand on one sub-mesh and a third
\* entry stands on another.
C13_Witness ==
    /\ JustExported
    /\ \E a, b, c \in DOMAIN LastDoc.meshInstances :
          /\ a # b
          /\ LastDoc.meshInstances[a].mesh = LastDoc.meshInstances[b].mesh
          /\ LastDoc.meshInstances[c].mesh # LastDoc.meshInstances[a].mesh

====
